---- MODULE Spec2Model ----
(***************************************************************************)
(* deet: the command loop of the debugger (proj-1/deet/src/debugger.rs)    *)
(* and the traced child process it controls (proj-1/deet/src/inferior.rs). *)
(*                                                                         *)
(* The debugger is single threaded: one step of the model is one pass      *)
(* through the body of the loop of Debugger::run, i.e. one command read by *)
(* get_next_command, dispatched and rendered.  The operating system is the *)
(* environment: what a child does when it is left to run, whether a file   *)
(* can be launched, and what the child's stack holds are inputs the        *)
(* actions draw from small sets.  A parked child may also die on its own   *)
(* (another thread of it exits, or somebody sends it SIGKILL).             *)
(***************************************************************************)
EXTENDS Naturals, Sequences, FiniteSets

\* ------------------------------------------------------------------ bounds

\* Children the debugger may spawn in one session.
MaxSpawn == 3

\* Frames of the saved frame-pointer chain an inspected stack may hold.
MaxDepth == 2

\* Frames of the stacks the walk is checked on alone (SpecWalk).
WalkDepth == 4

\* ------------------------------------------------------- program constants

SIGINT == 2
SIGTRAP == 5
SIGKILL == 9

\* ---------------------------------------------------------------- values

\* enum Status, and the other ways a call can end.  tag is
\*   "Stopped" | "Exited" | "Signaled" | "None"   Ok(Status::..)
\*   "Err"                                          Err(nix::Error)
\*   "Panic"                                        the call panicked
\*   "Block"                                        waitpid never returns
\*   "Hang"                                         the loop never ends
\* val is the signal or the exit code, 0 where the variant carries none.
\* The instruction pointer a Stopped status carries decides nothing in the
\* two files and is left out.
Res(tag, val) == [tag |-> tag, val |-> val]

Stopped(signal) == Res("Stopped", signal)

Exited(code) == Res("Exited", code)

Signaled(signal) == Res("Signaled", signal)

StatusNone == Res("None", 0)

Err == Res("Err", 0)

Panic == Res("Panic", 0)

Block == Res("Block", 0)

Hang == Res("Hang", 0)

Terminal == {"Exited", "Signaled"}

Diverged == {"Panic", "Block", "Hang"}

\* What the environment may produce.
ExitCodes == {0, 1}

StopSignals == {SIGTRAP, SIGINT}

DeathSignals == {SIGKILL}

Deaths == {Exited(c) : c \in ExitCodes} \cup {Signaled(s) : s \in DeathSignals}

NoDeath == Res("NoDeath", 0)

Races == Deaths \cup {NoDeath}

Never == Res("Never", 0)

\* What a running child does next, as the waitpid that follows sees it:
\* it stops on a signal, it stops and is killed before its registers are
\* read ("StoppedDied"), it ends, or it runs for ever ("Never").
WaitEvents ==
    {Stopped(s) : s \in StopSignals} \cup {Res("StoppedDied", s) : s \in StopSignals}
        \cup Deaths \cup {Never}

\* The first event of a child that was launched under PTRACE_TRACEME: the
\* exec stops it with SIGTRAP unless a signal reaches it, or it dies, first.
SpawnEvents == WaitEvents \ {Never}

\* A child as the kernel and std::process::Child hold it.
\* st: "unborn" | "running" | "stopped" | "zombie" | "reaped"
\* status: the wait status of a zombie.
Proc(st, status) == [st |-> st, status |-> status]

Pids == 1..MaxSpawn

\* The part of the state the functions of inferior.rs act on.
\*   os      the children, by pid
\*   cached  Child's cached exit status is Some (set by try_wait)
\*   nprocs  children spawned so far
\*   ops     the system calls of the command being handled, in order
\*   out     the lines printed by the command being handled, in order
World(os_, cached_, nprocs_, ops_, out_) ==
    [os |-> os_, cached |-> cached_, nprocs |-> nprocs_, ops |-> ops_, out |-> out_]

Ret(w, r) == [w |-> w, r |-> r]

Sys(w, op) == [w EXCEPT !.ops = Append(@, op)]

\* A printed line: its fixed text and the value formatted into it (0 where
\* there is none).
Line(text, arg) == [text |-> text, arg |-> arg]

println(w, text, arg) == [w EXCEPT !.out = Append(@, Line(text, arg))]

SetProc(w, pid, p) == [w EXCEPT !.os[pid] = p]

Alive(p) == p.st \in {"running", "stopped"}

\* The child dies on its own, if it is still alive and d is a death.
Dies(w, pid, d) ==
    IF d # NoDeath /\ Alive(w.os[pid]) THEN SetProc(w, pid, Proc("zombie", d)) ELSE w

\* ------------------------------------------------------------ inferior.rs

\* try_wait asking the system every time, with no status kept in Child.
try_wait_uncached(w, pid) ==
    LET p == w.os[pid]
        w1 == Sys(w, "try_wait")
    IN  CASE p.st = "zombie" -> Ret(SetProc(w1, pid, Proc("reaped", p.status)), Res("Some", 0))
          [] Alive(p) -> Ret(w1, Res("None", 0))
          [] OTHER -> Ret(w1, Err)

\* std::process::Child::try_wait, as Inferior::running calls it: a status
\* cached by an earlier call is returned without a system call; otherwise
\* waitpid(pid, WNOHANG) reaps a zombie and caches its status, finds a live
\* child unchanged (the stop of a parked child was consumed when it was
\* reported), and fails with ECHILD for a child somebody else reaped.
\* r.tag: "Some" | "None" | "Err".
try_wait(w, pid) ==
    IF w.cached[pid]
    THEN Ret(w, Res("Some", 0))
    ELSE LET p == w.os[pid]
             w1 == Sys(w, "try_wait")
         IN  CASE p.st = "zombie" ->
                      Ret([SetProc(w1, pid, Proc("reaped", p.status))
                              EXCEPT !.cached[pid] = TRUE], Res("Some", 0))
               [] Alive(p) -> Ret(w1, Res("None", 0))
               [] OTHER -> Ret(w1, Err)

\* Inferior::running: Ok(false) for a reaped child, Ok(true) for a live one;
\* panics when try_wait fails.  r.tag: "true" | "false" | "Panic".
running(w, pid) ==
    LET t == try_wait(w, pid)
    IN  CASE t.r.tag = "Some" -> Ret(t.w, Res("false", 0))
          [] t.r.tag = "None" -> Ret(t.w, Res("true", 0))
          [] OTHER -> Ret(t.w, Panic)

\* check_running answering true without a probe.
check_running_blind(w, pid) == Ret(w, Res("true", 0))

\* Inferior::check_running: false, with a notice, exactly when running()
\* answers Ok(false).  r.tag: "true" | "false" | "Panic".
check_running(w, pid) ==
    LET t == running(w, pid)
    IN  IF t.r.tag = "false"
        THEN Ret(println(t.w, "No running inferior", 0), t.r)
        ELSE t

\* ptrace::getregs: the registers of a parked child; ESRCH for a child that
\* is not parked (it died).  The call is logged as "getregs" or
\* "getregs_esrch".
ptrace_getregs(w, pid) ==
    Sys(w, IF w.os[pid].st = "stopped" THEN "getregs" ELSE "getregs_esrch")

\* Inferior::wait: waitpid on the child, decoded.  ev is what a running
\* child does next.  A zombie is reaped and its status returned; a stop is
\* followed by a register read, which fails (ESRCH) when the child was
\* killed in between; a child that is parked with nothing to report, or
\* that runs for ever, blocks the call; a child already reaped is ECHILD.
\* The wait statuses of the panic! arm (Continued, PtraceEvent, StillAlive)
\* are not produced under the flags the two callers pass.
wait(w, pid, ev) ==
    LET p == w.os[pid]
        w1 == Sys(w, "waitpid")
    IN  CASE p.st = "zombie" -> Ret(SetProc(w1, pid, Proc("reaped", p.status)), p.status)
          [] p.st = "running" /\ ev.tag = "Stopped" ->
                 Ret(ptrace_getregs(SetProc(w1, pid, Proc("stopped", StatusNone)), pid), ev)
          [] p.st = "running" /\ ev.tag = "StoppedDied" ->
                 Ret(ptrace_getregs(SetProc(w1, pid, Proc("zombie", Signaled(SIGKILL))), pid),
                     Err)
          [] p.st = "running" /\ ev.tag \in Terminal ->
                 Ret(SetProc(w1, pid, Proc("reaped", ev)), ev)
          [] Alive(p) -> Ret(w1, Block)
          [] OTHER -> Ret(w1, Err)

\* child_kill with a signal a traced child does not die of: the child stays
\* parked.
child_kill_spared(w, pid) == Sys(w, "kill")

\* Child::kill as Inferior::kill calls it, after check_running answered
\* true (so no status is cached): kill(pid, SIGKILL).  A live child dies
\* of it; a zombie is left as it is.
child_kill(w, pid) ==
    LET w1 == Sys(w, "kill")
    IN  IF Alive(w1.os[pid]) THEN SetProc(w1, pid, Proc("zombie", Signaled(SIGKILL))) ELSE w1

\* Inferior::kill.  race is what the child does between the liveness probe
\* and the kill: nothing, or it dies on its own.
kill(w, pid, race) ==
    LET c == check_running(w, pid)
    IN  CASE c.r.tag = "Panic" -> c
          [] c.r.tag = "false" -> Ret(c.w, StatusNone)
          [] OTHER ->
                 wait(println(child_kill(Dies(c.w, pid, race), pid),
                              "Killing running inferior (pid)", pid), pid, NoDeath)

\* ptrace::cont: lets a parked child run; ESRCH for anything else.
\* r.tag: "Ok" | "Err".
ptrace_cont(w, pid) ==
    LET w1 == Sys(w, "ptrace_cont")
    IN  IF w1.os[pid].st = "stopped"
        THEN Ret(SetProc(w1, pid, Proc("running", StatusNone)), Res("Ok", 0))
        ELSE Ret(w1, Err)

\* Inferior::continue_exec.  race as in kill; ev is what the resumed child
\* does next.
continue_exec(w, pid, race, ev) ==
    LET c == check_running(w, pid)
    IN  CASE c.r.tag = "Panic" -> c
          [] c.r.tag = "false" -> Ret(c.w, StatusNone)
          [] OTHER ->
                 LET k == ptrace_cont(Dies(c.w, pid, race), pid)
                 IN  IF k.r.tag = "Err" THEN k ELSE wait(k.w, pid, ev)

\* Inferior::new taking any stop of the child for the stop at its entry.
Inferior_new_anystop(w, launch, ev) ==
    IF ~launch
    THEN Ret(Sys(w, "spawn"), StatusNone)
    ELSE LET pid == w.nprocs + 1
             w1 == SetProc([Sys(w, "spawn") EXCEPT !.nprocs = pid], pid,
                           Proc("running", StatusNone))
             t == wait(w1, pid, ev)
         IN  CASE t.r.tag = "Stopped" -> Ret(t.w, Res("Some", pid))
               [] t.r.tag = "Block" -> t
               [] OTHER -> Ret(t.w, Panic)

\* Inferior::new unwrapping the result of spawn() instead of mapping it.
Inferior_new_unwrap(w, launch, ev) ==
    IF ~launch
    THEN Ret(Sys(w, "spawn"), Panic)
    ELSE LET pid == w.nprocs + 1
             w1 == SetProc([Sys(w, "spawn") EXCEPT !.nprocs = pid], pid,
                           Proc("running", StatusNone))
             t == wait(w1, pid, ev)
         IN  CASE t.r = Stopped(SIGTRAP) -> Ret(t.w, Res("Some", pid))
               [] t.r.tag = "Block" -> t
               [] OTHER -> Ret(t.w, Panic)

\* Inferior::new.  launch: whether fork, PTRACE_TRACEME and exec succeed
\* (std reaps a child whose exec failed and reports the error, which .ok()
\* turns into None).  ev is the first event of the new child.  The closure
\* unwraps the result of wait and unwraps an Err for an event that is not
\* Stopped(SIGTRAP): both panic.  r.tag: "Some" (val the pid) | "None" |
\* "Panic" | "Block".
Inferior_new(w, launch, ev) ==
    IF ~launch
    THEN Ret(Sys(w, "spawn"), StatusNone)
    ELSE LET pid == w.nprocs + 1
             w1 == SetProc([Sys(w, "spawn") EXCEPT !.nprocs = pid], pid,
                           Proc("running", StatusNone))
             t == wait(w1, pid, ev)
         IN  CASE t.r = Stopped(SIGTRAP) -> Ret(t.w, Res("Some", pid))
               [] t.r.tag = "Block" -> t
               [] OTHER -> Ret(t.w, Panic)

\* The stack of a parked child as the walk of print_backtrace meets it.
\* Frame i (1 is the innermost) lies at instruction address i; fns[i] is the
\* function the debug data give for that address, "none" when they give
\* nothing for it.  The saved return address of frame i leads to frame
\* Link(img, i): the next one, or from the last frame back to the first
\* (loop), or to an address nothing resolves (0).  fail > 0: a read of the
\* saved words of frame fail is refused, the return address (word "ret") or
\* the saved base pointer (word "bp").
FnNames == {"main", "f", "none"}

Images ==
    UNION {{[fns |-> fs, fail |-> k, word |-> wd, loop |-> lp] :
               fs \in [1..n -> FnNames], k \in 0..n, wd \in {"ret", "bp"},
               lp \in BOOLEAN} : n \in 1..MaxDepth}

\* The stacks of SpecWalk: up to WalkDepth frames.
WalkImages ==
    UNION {{[fns |-> fs, fail |-> k, word |-> wd, loop |-> lp] :
               fs \in [1..n -> FnNames], k \in 0..n, wd \in {"ret", "bp"},
               lp \in BOOLEAN} : n \in 1..WalkDepth}

Link(img, i) == IF i < Len(img.fns) THEN i + 1 ELSE IF img.loop THEN 1 ELSE 0

\* DwarfData::get_line_from_addr: the line number of an address, which the
\* model takes to be the address itself.
get_line_from_addr(img, addr) == addr

\* The walk reading the saved words of a frame before it looks at the
\* frame's function.
RECURSIVE Walk_readsfirst(_, _, _, _, _)
Walk_readsfirst(w, pid, img, i, seen) ==
    IF i = 0 \/ img.fns[i] = "none"
    THEN Ret(w, Panic)
    ELSE LET w1 == println(w, img.fns[i], get_line_from_addr(img, i))
         IN  CASE img.fail = i /\ img.word = "ret" -> Ret(Sys(w1, "peek"), Err)
               [] img.fail = i /\ img.word = "bp" -> Ret(Sys(Sys(w1, "peek"), "peek"), Err)
               [] img.fns[i] = "main" -> Ret(Sys(Sys(w1, "peek"), "peek"), StatusNone)
               [] Link(img, i) \in seen \cup {i} -> Ret(Sys(Sys(w1, "peek"), "peek"), Hang)
               [] OTHER -> Walk_readsfirst(Sys(Sys(w1, "peek"), "peek"), pid, img,
                                           Link(img, i), seen \cup {i})

\* The walk collecting its frames and printing them only when it reaches
\* main: a failed read loses them.
RECURSIVE Walk_dropframes(_, _, _, _, _)
Walk_dropframes(w, pid, img, i, seen) ==
    IF i = 0 \/ img.fns[i] = "none"
    THEN Ret(w, Panic)
    ELSE LET w1 == println(w, img.fns[i], get_line_from_addr(img, i))
         IN  CASE img.fns[i] = "main" -> Ret(w1, StatusNone)
               [] img.fail = i /\ img.word = "ret" ->
                      Ret(Sys([w1 EXCEPT !.out = <<>>], "peek"), Err)
               [] img.fail = i /\ img.word = "bp" ->
                      Ret(Sys(Sys([w1 EXCEPT !.out = <<>>], "peek"), "peek"), Err)
               [] Link(img, i) \in seen \cup {i} -> Ret(Sys(Sys(w1, "peek"), "peek"), Hang)
               [] OTHER -> Walk_dropframes(Sys(Sys(w1, "peek"), "peek"), pid, img,
                                           Link(img, i), seen \cup {i})

\* The walk giving up with an error when the chain leads back into itself.
RECURSIVE Walk_capped(_, _, _, _, _)
Walk_capped(w, pid, img, i, seen) ==
    IF i = 0 \/ img.fns[i] = "none"
    THEN Ret(w, Panic)
    ELSE LET w1 == println(w, img.fns[i], get_line_from_addr(img, i))
         IN  CASE img.fns[i] = "main" -> Ret(w1, StatusNone)
               [] img.fail = i /\ img.word = "ret" -> Ret(Sys(w1, "peek"), Err)
               [] img.fail = i /\ img.word = "bp" -> Ret(Sys(Sys(w1, "peek"), "peek"), Err)
               [] Link(img, i) \in seen \cup {i} -> Ret(Sys(Sys(w1, "peek"), "peek"), Err)
               [] OTHER -> Walk_capped(Sys(Sys(w1, "peek"), "peek"), pid, img, Link(img, i),
                                       seen \cup {i})

\* The loop of Inferior::print_backtrace from frame i on; seen are the
\* frames already walked.  Both lookups are expect()ed, so an address the
\* debug data do not know panics; the frame is printed; main ends the walk;
\* the two reads are propagated by ?.  A chain that leads back into itself
\* is walked for ever.
RECURSIVE Walk(_, _, _, _, _)
Walk(w, pid, img, i, seen) ==
    IF i = 0 \/ img.fns[i] = "none"
    THEN Ret(w, Panic)
    ELSE LET w1 == println(w, img.fns[i], get_line_from_addr(img, i))
         IN  CASE img.fns[i] = "main" -> Ret(w1, StatusNone)
               [] img.fail = i /\ img.word = "ret" -> Ret(Sys(w1, "peek"), Err)
               [] img.fail = i /\ img.word = "bp" -> Ret(Sys(Sys(w1, "peek"), "peek"), Err)
               [] Link(img, i) \in seen \cup {i} -> Ret(Sys(Sys(w1, "peek"), "peek"), Hang)
               [] OTHER -> Walk(Sys(Sys(w1, "peek"), "peek"), pid, img, Link(img, i),
                                seen \cup {i})

\* print_backtrace reading the registers without the liveness probe.
print_backtrace_unchecked(w, pid, race, img) ==
    LET w1 == ptrace_getregs(Dies(w, pid, race), pid)
    IN  IF w1.os[pid].st = "stopped"
        THEN Walk(w1, pid, img, 1, {})
        ELSE Ret(w1, Panic)

\* Inferior::print_backtrace.  race as in kill; the register read is
\* expect()ed and fails (ESRCH) for a child that is not parked.
print_backtrace(w, pid, race, img) ==
    LET c == check_running(w, pid)
    IN  CASE c.r.tag = "Panic" -> c
          [] c.r.tag = "false" -> Ret(c.w, StatusNone)
          [] OTHER ->
                 LET w1 == ptrace_getregs(Dies(c.w, pid, race), pid)
                 IN  IF w1.os[pid].st = "stopped"
                     THEN Walk(w1, pid, img, 1, {})
                     ELSE Ret(w1, Panic)

\* ------------------------------------------------------------ debugger.rs

\* What an arm of the match on the command leaves: the slot
\* (self.inferior, 0 for None), the world, the value of `next` (tag
\* "Return" when the arm returned from run), and what the arm's calls of
\* Inferior::kill and Inferior::new returned (NoCall when it made none).
NoCall == Res("-", 0)

Arm(slot, w, r, k, n) == [slot |-> slot, w |-> w, r |-> r, k |-> k, n |-> n]

Return == Res("Return", 0)

\* The Run arm leaving the new process parked at its entry.
RunArm_noresume(slot, w, launch, ev1, race, ev2) ==
    IF slot # 0
    THEN LET k == kill(w, slot, race)
         IN  Arm(slot, k.w, k.r, k.r, NoCall)
    ELSE LET n == Inferior_new(w, launch, ev1)
         IN  CASE n.r.tag = "Some" -> Arm(n.r.val, n.w, Stopped(SIGTRAP), NoCall, n.r)
               [] n.r.tag = "None" -> Arm(slot, n.w, Err, NoCall, n.r)
               [] OTHER -> Arm(slot, n.w, n.r, NoCall, n.r)

\* DebuggerCommand::Run(args).  The arguments are handed to the child and
\* decide nothing here.
RunArm(slot, w, launch, ev1, race, ev2) ==
    IF slot # 0
    THEN LET k == kill(w, slot, race)
         IN  Arm(slot, k.w, k.r, k.r, NoCall)
    ELSE LET n == Inferior_new(w, launch, ev1)
         IN  CASE n.r.tag = "Some" ->
                      LET c == continue_exec(n.w, n.r.val, race, ev2)
                      IN  Arm(n.r.val, c.w, c.r, NoCall, n.r)
               [] n.r.tag = "None" -> Arm(slot, n.w, Err, NoCall, n.r)
               [] OTHER -> Arm(slot, n.w, n.r, NoCall, n.r)

\* The Continue arm answering Ok(Status::None) for an empty slot.
ContinueArm_silent(slot, w, race, ev) ==
    IF slot # 0
    THEN LET c == continue_exec(w, slot, race, ev)
         IN  Arm(slot, c.w, c.r, NoCall, NoCall)
    ELSE Arm(slot, w, StatusNone, NoCall, NoCall)

\* DebuggerCommand::Continue.
ContinueArm(slot, w, race, ev) ==
    IF slot # 0
    THEN LET c == continue_exec(w, slot, race, ev)
         IN  Arm(slot, c.w, c.r, NoCall, NoCall)
    ELSE Arm(slot, w, Err, NoCall, NoCall)

\* The Quit arm returning without killing the process in the slot.
QuitArm_nokill(slot, w, race) ==
    IF slot # 0
    THEN Arm(slot, w, Return, NoCall, NoCall)
    ELSE Arm(slot, w, Err, NoCall, NoCall)

\* DebuggerCommand::Quit: kill().expect(..) and return with a process in
\* the slot, an error value without.
QuitArm(slot, w, race) ==
    IF slot # 0
    THEN LET k == kill(w, slot, race)
         IN  Arm(slot, k.w, IF k.r.tag \in {"Err", "Panic"} THEN Panic
                            ELSE IF k.r.tag \in Diverged THEN k.r ELSE Return,
                 k.r, NoCall)
    ELSE Arm(slot, w, Err, NoCall, NoCall)

\* DebuggerCommand::Backtrace.
BacktraceArm(slot, w, race, img) ==
    IF slot # 0
    THEN LET b == print_backtrace(w, slot, race, img)
         IN  Arm(slot, b.w, b.r, NoCall, NoCall)
    ELSE Arm(slot, w, Err, NoCall, NoCall)

\* The match on `next` keeping the slot of a child that a signal killed.
Render_keep(a) ==
    CASE a.r.tag = "Exited" ->
             [a EXCEPT !.slot = 0, !.w = println(a.w, "Child exited (status)", a.r.val)]
      [] a.r.tag = "Signaled" ->
             [a EXCEPT !.w = println(a.w, "Child signaled (signal)", a.r.val)]
      [] a.r.tag = "Stopped" ->
             [a EXCEPT !.w = println(a.w, "Child stopped (signal)", a.r.val)]
      [] a.r.tag = "Err" -> [a EXCEPT !.w = println(a.w, "Error running inferior", 0)]
      [] OTHER -> a

\* The match on `next` emptying the slot for a stop as well.
Render_dropstop(a) ==
    CASE a.r.tag = "Exited" ->
             [a EXCEPT !.slot = 0, !.w = println(a.w, "Child exited (status)", a.r.val)]
      [] a.r.tag = "Signaled" ->
             [a EXCEPT !.slot = 0, !.w = println(a.w, "Child signaled (signal)", a.r.val)]
      [] a.r.tag = "Stopped" ->
             [a EXCEPT !.slot = 0, !.w = println(a.w, "Child stopped (signal)", a.r.val)]
      [] a.r.tag = "Err" -> [a EXCEPT !.w = println(a.w, "Error running inferior", 0)]
      [] OTHER -> a

\* The match on `next`: a terminal status empties the slot; every status
\* but None, and every error, prints one line.  An arm that returned,
\* panicked or never finished does not get here.
Render(a) ==
    CASE a.r.tag = "Exited" ->
             [a EXCEPT !.slot = 0, !.w = println(a.w, "Child exited (status)", a.r.val)]
      [] a.r.tag = "Signaled" ->
             [a EXCEPT !.slot = 0, !.w = println(a.w, "Child signaled (signal)", a.r.val)]
      [] a.r.tag = "Stopped" ->
             [a EXCEPT !.w = println(a.w, "Child stopped (signal)", a.r.val)]
      [] a.r.tag = "Err" -> [a EXCEPT !.w = println(a.w, "Error running inferior", 0)]
      [] OTHER -> a

\* Where the loop of Debugger::run is after a pass that ended with r.
After(r) ==
    CASE r.tag = "Return" -> "returned"
      [] r.tag = "Panic" -> "panicked"
      [] r.tag = "Block" -> "blocked"
      [] r.tag = "Hang" -> "hung"
      [] OTHER -> "loop"

\* ------------------------------------------------------------------ state

VARIABLES
    pc,        \* where Debugger::run is: "loop" | "returned" | "panicked" |
               \* "blocked" (in waitpid for ever) | "hung" (in a loop for ever)
    inferior,  \* Debugger.inferior: 0 for None, else the pid of the child
    os,        \* the children spawned so far, by pid (see Proc)
    cached,    \* by pid: Child's cached exit status is Some
    nprocs,    \* children spawned so far
    cmd,       \* the last command handled: "Run" | "Continue" | "Quit" |
               \* "Backtrace", "-" before the first
    pre,       \* the slot, and the state of the child in it, when the last
               \* command was read
    ops,       \* the system calls the last command made, in order
    out,       \* the lines the last command printed, in order
    next,      \* the value of `next` in the last pass (see Arm)
    killed,    \* what Inferior::kill returned in the last pass, or NoCall
    born,      \* what Inferior::new returned in the last pass (ret), the
               \* first event of the child it waited for (first) and the
               \* state of that child when it returned (st)
    since,     \* "just": the last command ended with a terminal status;
               \* "after": an earlier one did and no Run has got a handle
               \* from Inferior::new since; "no" otherwise
    stack      \* SpecWalk: the stack of the parked child, which every
               \* Backtrace reads.  Spec draws a stack for each Backtrace
               \* instead and leaves this variable alone.

vars ==
    <<pc, inferior, os, cached, nprocs, cmd, pre, ops, out, next, killed, born, since, stack>>

NoBorn == [ret |-> NoCall, first |-> NoCall, st |-> "-"]

Pre == [slot |-> inferior, st |-> IF inferior = 0 THEN "-" ELSE os[inferior].st]

\* An input that a pass cannot read is not enumerated: it is fixed to Never,
\* NoDeath or AnyImage.
AnyImage == CHOOSE img \in Images : TRUE

\* Debugger::new: no inferior.
Init ==
    /\ pc = "loop"
    /\ inferior = 0
    /\ os = [p \in Pids |-> Proc("unborn", StatusNone)]
    /\ cached = [p \in Pids |-> FALSE]
    /\ nprocs = 0
    /\ cmd = "-"
    /\ pre = [slot |-> 0, st |-> "-"]
    /\ ops = <<>>
    /\ out = <<>>
    /\ next = NoCall
    /\ killed = NoCall
    /\ born = NoBorn
    /\ since = "no"
    /\ stack = AnyImage

\* The world a command starts in.
Now == World(os, cached, nprocs, <<>>, <<>>)

\* One pass through the loop of Debugger::run for command c: a0 is what the
\* arm of c left, rendered by the match on `next`.
Pass(c, a0, b) ==
    LET a == Render(a0)
    IN  /\ pc' = After(a.r)
        /\ inferior' = a.slot
        /\ os' = a.w.os
        /\ cached' = a.w.cached
        /\ nprocs' = a.w.nprocs
        /\ cmd' = c
        /\ pre' = Pre
        /\ ops' = a.w.ops
        /\ out' = a.w.out
        /\ next' = a.r
        /\ killed' = a.k
        /\ born' = b
        /\ since' = IF a.r.tag \in Terminal THEN "just"
                    ELSE IF a.n.tag = "Some" \/ since = "no" THEN "no" ELSE "after"
        /\ stack' = stack

\* What born records of a Run read with the slot empty.
Born(w, launch, ev1) ==
    LET n == Inferior_new(w, launch, ev1)
    IN  [ret |-> n.r, first |-> IF launch THEN ev1 ELSE NoCall,
         st |-> IF n.r.tag = "Some" THEN n.w.os[n.r.val].st ELSE "-"]

\* get_next_command returned Run(args).  launch and ev1 are read only with
\* the slot empty, race only by kill or continue_exec, ev2 only by the wait
\* of continue_exec.
RunCmd ==
    /\ pc = "loop"
    /\ \E launch \in IF inferior = 0 /\ nprocs < MaxSpawn THEN BOOLEAN ELSE {FALSE} :
       \E ev1 \in IF launch THEN SpawnEvents ELSE {Never} :
       \E race \in IF inferior # 0 \/ ev1.tag = "Stopped" THEN Races ELSE {NoDeath} :
       \E ev2 \in IF ev1.tag = "Stopped" /\ race = NoDeath THEN WaitEvents ELSE {Never} :
          Pass("Run", RunArm(inferior, Now, launch, ev1, race, ev2),
               IF inferior = 0 THEN Born(Now, launch, ev1) ELSE NoBorn)

\* get_next_command returned Continue.
ContinueCmd ==
    /\ pc = "loop"
    /\ \E race \in IF inferior # 0 THEN Races ELSE {NoDeath} :
       \E ev \in IF inferior # 0 /\ race = NoDeath THEN WaitEvents ELSE {Never} :
          Pass("Continue", ContinueArm(inferior, Now, race, ev), NoBorn)

\* get_next_command returned Quit (the command, or end of input).
QuitCmd ==
    /\ pc = "loop"
    /\ \E race \in IF inferior # 0 THEN Races ELSE {NoDeath} :
          Pass("Quit", QuitArm(inferior, Now, race), NoBorn)

\* get_next_command returned Backtrace.
BacktraceCmd ==
    /\ pc = "loop"
    /\ \E race \in IF inferior # 0 THEN Races ELSE {NoDeath} :
       \E img \in IF inferior # 0 /\ race = NoDeath THEN Images ELSE {AnyImage} :
          Pass("Backtrace", BacktraceArm(inferior, Now, race, img), NoBorn)

\* get_next_command panics on an I/O error of readline that is neither an
\* interrupt nor the end of input.
ReadlinePanic ==
    /\ pc = "loop"
    /\ pc' = "panicked"
    /\ cmd' = "-"
    /\ pre' = Pre
    /\ ops' = <<>>
    /\ out' = <<>>
    /\ next' = Panic
    /\ killed' = NoCall
    /\ born' = NoBorn
    /\ UNCHANGED <<inferior, os, cached, nprocs, since, stack>>

\* The child parked in the slot dies on its own while the debugger waits
\* for a command.
ExternalDeath ==
    /\ pc = "loop"
    /\ inferior # 0
    /\ os[inferior].st = "stopped"
    /\ \E d \in Deaths : os' = [os EXCEPT ![inferior] = Proc("zombie", d)]
    /\ UNCHANGED <<pc, inferior, cached, nprocs, cmd, pre, ops, out, next, killed, born, since,
                   stack>>

Next ==
    \/ RunCmd
    \/ ContinueCmd
    \/ QuitCmd
    \/ BacktraceCmd
    \/ ReadlinePanic
    \/ ExternalDeath

Spec == Init /\ [][Next]_vars

\* ------------------------------------------------------ the walk, alone

\* Backtrace on a fixed stack.  The session starts where a first Run has
\* left a child parked (spawned, resumed once, stopped again on signal
\* sig); its stack is any of WalkImages, deeper than the stacks Spec draws,
\* and every step is a Backtrace that reads it.
InitWalk ==
    \E sig \in StopSignals :
        LET w0 == World([p \in Pids |-> Proc("unborn", StatusNone)], [p \in Pids |-> FALSE],
                        0, <<>>, <<>>)
            a == Render(RunArm(0, w0, TRUE, Stopped(SIGTRAP), NoDeath, Stopped(sig)))
        IN  /\ pc = After(a.r)
            /\ inferior = a.slot
            /\ os = a.w.os
            /\ cached = a.w.cached
            /\ nprocs = a.w.nprocs
            /\ cmd = "Run"
            /\ pre = [slot |-> 0, st |-> "-"]
            /\ ops = a.w.ops
            /\ out = a.w.out
            /\ next = a.r
            /\ killed = a.k
            /\ born = Born(w0, TRUE, Stopped(SIGTRAP))
            /\ since = "no"
            /\ stack \in WalkImages

\* get_next_command returned Backtrace; the child's stack is `stack`.
BacktraceStack ==
    /\ pc = "loop"
    /\ \E race \in Races :
          Pass("Backtrace", BacktraceArm(inferior, Now, race, stack), NoBorn)

NextWalk == BacktraceStack

SpecWalk == InitWalk /\ [][NextWalk]_vars

\* ----------------------------------------------------------------- claims

Count(seq, x) == Cardinality({i \in DOMAIN seq : seq[i] = x})

\* x occurs in seq, and y occurs after its first occurrence.
Then(seq, x, y) == \E i, j \in DOMAIN seq : i < j /\ seq[i] = x /\ seq[j] = y

ErrorLine == Line("Error running inferior", 0)

LivePids == {p \in Pids : Alive(os[p])}

\* C1: a Run read while the slot holds a parked process kills that process
\* and then, in the same pass, spawns a fresh one and resumes it once.
C1_RunRestarts ==
    cmd = "Run" /\ pre.slot # 0 /\ pre.st = "stopped" =>
        /\ Count(ops, "kill") = 1
        /\ Count(ops, "spawn") = 1
        /\ Then(ops, "kill", "spawn")
        /\ born.ret.tag = "Some" => Count(ops, "ptrace_cont") = 1

\* C2: a command whose status is Exited or Signaled leaves the slot empty,
\* the slot stays empty until a Run gets a new process, and every Continue
\* and Backtrace read in between is answered with the error and makes no
\* system call.
C2_TerminalEmptiesSlot ==
    /\ next.tag \in Terminal => inferior = 0 /\ since = "just"
    /\ since # "no" => inferior = 0
    /\ since = "after" /\ cmd \in {"Continue", "Backtrace"} =>
           next = Err /\ out = <<ErrorLine>> /\ ops = <<>>

C2_Witness == since = "after" /\ cmd = "Continue" /\ next = Err

\* C3: a Continue or Backtrace read with the slot empty is answered with the
\* error, makes no system call, touches no process and leaves the slot
\* empty; the loop goes on, so this holds of every one of a row of them.
C3_EmptySlotRejects ==
    [][pc = "loop" /\ inferior = 0 /\ cmd' \in {"Continue", "Backtrace"} =>
           /\ next' = Err
           /\ out' = <<ErrorLine>>
           /\ ops' = <<>>
           /\ inferior' = 0
           /\ pc' = "loop"
           /\ UNCHANGED <<os, cached, nprocs>>]_vars

C3_Witness ==
    cmd = "Backtrace" /\ pre.slot = 0 /\ next = Err /\ nprocs > 0 /\ since = "after"

\* C4: a Quit read with the slot empty makes Debugger::run return.
C4_QuitEmptyReturns == cmd = "Quit" /\ pre.slot = 0 => pc = "returned"

\* C5: a Quit read while the slot holds a parked process probes it, kills it
\* once, waits for the terminal status of that kill and returns; no child is
\* alive once run has returned, and nothing is handled after that.
C5_QuitKillsOnce ==
    /\ [](cmd = "Quit" /\ pre.slot # 0 /\ pre.st = "stopped" =>
              /\ ops = <<"try_wait", "kill", "waitpid">>
              /\ killed.tag \in Terminal
              /\ pc = "returned"
              /\ ~Alive(os[pre.slot]))
    /\ [](pc = "returned" => LivePids = {})
    /\ [][pc # "returned"]_vars

C5_Witness ==
    cmd = "Quit" /\ pre.st = "stopped" /\ pc = "returned" /\ killed = Signaled(SIGKILL)

\* C6: Inferior::kill called on a parked process returns Exited or Signaled,
\* never Stopped, None or an error.
C6_KillIsTerminal == killed # NoCall /\ pre.st = "stopped" => killed.tag \in Terminal

C6_Witness == cmd = "Run" /\ killed = Signaled(SIGKILL) /\ pre.st = "stopped"

\* C7: Inferior::new returns a handle only for a child whose first event was
\* the stop with SIGTRAP, and that child is parked when it returns.
C7_SpawnParksAtTrap ==
    born.ret.tag = "Some" => born.first = Stopped(SIGTRAP) /\ born.st = "stopped"

C7_Witness == born.ret.tag = "Some" /\ born.first = Stopped(SIGTRAP)

\* C8: when the first event of the spawned child is not the stop with
\* SIGTRAP, the Run fails alone: the error is printed, the slot is empty and
\* the loop reads the next command.
C8_BadFirstEventIsError ==
    cmd = "Run" /\ born.first \in (Deaths \cup {Stopped(SIGINT)}) =>
        pc = "loop" /\ next = Err /\ ErrorLine \in {out[i] : i \in DOMAIN out}
            /\ inferior = 0

\* C9: a Run read with the slot empty whose target cannot be launched prints
\* the error, makes no call but the spawn, leaves the slot empty and the
\* loop running.
C9_LaunchFailureIsError ==
    cmd = "Run" /\ pre.slot = 0 /\ born.first = NoCall =>
        /\ born.ret = StatusNone
        /\ next = Err
        /\ out = <<ErrorLine>>
        /\ ops = <<"spawn">>
        /\ inferior = 0
        /\ pc = "loop"

C9_Witness == cmd = "Run" /\ pre.slot = 0 /\ born.first = NoCall /\ next = Err

\* C10: at most one child the debugger spawned is alive, and a child that is
\* alive is the one in the slot.
C10_OneLiveChildInSlot ==
    /\ Cardinality(LivePids) <= 1
    /\ \A p \in LivePids : inferior = p

\* The frames 1..k of a stack as Backtrace prints them: the function and the
\* line the debug data give for the frame's address.
Frames(img, k) == [i \in 1..k |-> Line(img.fns[i], get_line_from_addr(img, i))]

\* The frames 1..k of img resolve to functions other than main.
Inner(img, k) == \A i \in 1..k : img.fns[i] \notin {"main", "none"}

\* The last pass was a Backtrace that read the registers of the parked
\* child.
Walked == cmd = "Backtrace" /\ Count(ops, "getregs") = 1

\* C11: on a chain whose k-th frame is the first to resolve to main, and
\* whose saved words up to there can be read, Backtrace prints exactly the
\* frames 1..k, innermost first and main last, each with the function and
\* line of its address, and reads the saved words of the k-1 frames before
\* main only.
C11_WalkPrintsChain ==
    \A k \in 1..Len(stack.fns) :
        Walked /\ stack.fns[k] = "main" /\ Inner(stack, k - 1) /\ stack.fail \notin 1..(k - 1) =>
            /\ out = Frames(stack, k)
            /\ next = StatusNone
            /\ Count(ops, "peek") = 2 * (k - 1)
            /\ Len(ops) = 2 + 2 * (k - 1)
            /\ pc = "loop"

C11_Witness ==
    /\ Walked
    /\ Len(stack.fns) = 4 /\ stack.fns[4] = "main" /\ Inner(stack, 3) /\ stack.fail = 0
    /\ Len(out) = 4 /\ out[4].text = "main" /\ out[1].arg = 1

\* C12: when a read of the saved words of frame j fails, frames 1..j being
\* printed, Backtrace ends with an error: those j frames stay printed, in
\* order, before the error line; the slot and the parked child are as they
\* were and the loop goes on.
C12_FailedReadKeepsFrames ==
    \A j \in 1..Len(stack.fns) :
        Walked /\ stack.fail = j /\ Inner(stack, j) =>
            /\ next = Err
            /\ out = Frames(stack, j) \o <<ErrorLine>>
            /\ inferior = pre.slot
            /\ os[inferior].st = "stopped"
            /\ pc = "loop"

C12_Witness ==
    /\ Walked /\ stack.fail = 2 /\ Inner(stack, 2)
    /\ next = Err /\ Len(out) = 3 /\ out[2] = Line("f", 2)

\* Every lookup and every read of the walk succeeds: no frame is unknown to
\* the debug data, no read is refused and the chain leads back into itself.
AllResolve(img) ==
    /\ \A i \in 1..Len(img.fns) : img.fns[i] # "none"
    /\ img.fail = 0
    /\ img.loop

\* C17: on a chain where every read and lookup succeeds, Backtrace ends if
\* and only if a frame of the chain resolves to main; on a chain that leads
\* back into itself without one it prints frames for ever.
C17_MainAloneEndsWalk ==
    Walked /\ AllResolve(stack) =>
        /\ (pc = "loop" /\ next = StatusNone) <=> (\E i \in 1..Len(stack.fns) : stack.fns[i] = "main")
        /\ (\A i \in 1..Len(stack.fns) : stack.fns[i] # "main") =>
               pc = "hung" /\ next = Hang /\ out = Frames(stack, Len(stack.fns))

C17_Witness ==
    /\ Walked /\ AllResolve(stack) /\ Len(stack.fns) = 3
    /\ \A i \in 1..3 : stack.fns[i] = "f"
    /\ pc = "hung"

\* C13: no error of a Backtrace ends the debugger: a failed lookup of the
\* debug data or a failed register read is reported like a failed memory
\* read and the loop reads the next command.
C13_BacktraceErrorsKeepLoop ==
    cmd = "Backtrace" /\ pc # "hung" => pc = "loop" /\ next \in {StatusNone, Err}

\* The line the match on `next` prints for a status.
StatusLine(r) ==
    Line(CASE r.tag = "Exited" -> "Child exited (status)"
           [] r.tag = "Signaled" -> "Child signaled (signal)"
           [] OTHER -> "Child stopped (signal)", r.val)

\* C14: a Run read with the slot empty whose target is launched makes one
\* spawn and then one resume of the new process; the status the wait after
\* that resume returns is the one printed, and the new process is in the
\* slot afterwards exactly when that status is Stopped: Exited(0) is
\* printed and leaves the slot empty.
C14_RunSpawnsThenResumesOnce ==
    cmd = "Run" /\ pre.slot = 0 /\ born.ret.tag = "Some" =>
        /\ Count(ops, "spawn") = 1
        /\ Count(ops, "ptrace_cont") = 1
        /\ Then(ops, "spawn", "ptrace_cont")
        /\ next.tag \in Terminal \cup {"Stopped"} =>
               /\ out = <<StatusLine(next)>>
               /\ inferior # 0 <=> next.tag = "Stopped"
               /\ inferior \in {0, born.ret.val}
               /\ next.tag \in Terminal => os[born.ret.val] = Proc("reaped", next)
               /\ pc = "loop"
        /\ next = Exited(0) => out = <<Line("Child exited (status)", 0)>> /\ inferior = 0

C14_Witness ==
    /\ cmd = "Run" /\ pre.slot = 0 /\ born.ret.tag = "Some"
    /\ next = Exited(0) /\ inferior = 0
    /\ ops = <<"spawn", "waitpid", "getregs", "try_wait", "ptrace_cont", "waitpid">>

\* The last command was read with a handle in the slot whose process was
\* dead already.
Dead == {"zombie", "reaped"}

DeadHandle == pre.slot # 0 /\ pre.st \in Dead

\* What the call of continue_exec or kill on the handle returned in the
\* last pass.
Answer == IF cmd = "Continue" THEN next ELSE killed

Notice == Line("No running inferior", 0)

\* C15 as stated: continue_exec and kill called on a handle whose process
\* is dead fail with an error.
C15_DeadHandleFails ==
    DeadHandle /\ cmd \in {"Continue", "Run", "Quit"} => Answer = Err

\* C15: continue_exec and kill called on a handle whose process is dead
\* probe first and, the probe answering dead, print the notice and return
\* Ok(Status::None), which is no error: no continue, kill or wait is issued
\* and the call does not block.
C15_DeadHandleIsNoOp ==
    DeadHandle /\ cmd \in {"Continue", "Run", "Quit"} =>
        /\ Answer = StatusNone
        /\ ops \in {<<>>, <<"try_wait">>}
        /\ out = <<Notice>>
        /\ pc = IF cmd = "Quit" THEN "returned" ELSE "loop"

C15_Witness ==
    /\ DeadHandle /\ cmd = "Continue" /\ pre.st = "zombie"
    /\ next = StatusNone /\ ops = <<"try_wait">> /\ out = <<Notice>>

\* The phase of a process: parked, running, or dead with its last status.
Phase(p) == IF p.st \in Dead THEN p.status ELSE Res(p.st, 0)

\* C16: a handle starts parked; a resume that returns a status returns
\* Stopped, Exited or Signaled; a dead process stays dead with the status it
\* died with, and a command read with a dead process in the slot issues no
\* continue, kill or read; a Stopped status leaves the handle in the slot.
C16_PhasesMoveForward ==
    /\ [](born.ret.tag = "Some" => born.st = "stopped")
    /\ [](cmd \in {"Continue", "Run"} /\ killed = NoCall /\ "ptrace_cont" \in {ops[i] : i \in DOMAIN ops}
              /\ next.tag \notin Diverged \cup {"Err"} =>
              next.tag \in Terminal \cup {"Stopped"})
    /\ [](DeadHandle => \A i \in DOMAIN ops : ops[i] = "try_wait")
    /\ [](next.tag = "Stopped" =>
              inferior # 0 /\ inferior = (IF pre.slot # 0 THEN pre.slot ELSE born.ret.val))
    /\ [][\A p \in Pids :
              /\ os[p].st \in Dead => os'[p].st \in Dead /\ Phase(os'[p]) = Phase(os[p])
              /\ os[p].st # "unborn" => os'[p].st # "unborn"
              /\ os[p].st = "unborn" /\ os'[p].st # "unborn" =>
                     cmd' = "Run" /\ ops'[1] = "spawn"]_vars

C16_Witness ==
    /\ cmd = "Continue" /\ pre.st = "stopped" /\ next = Stopped(SIGINT)
    /\ inferior = pre.slot /\ nprocs = 2 /\ os[1].st = "reaped"

\* The probe Inferior::running applied n times in a row.
MaxProbes == 3

RECURSIVE Probed(_, _, _)
Probed(w, pid, n) == IF n = 0 THEN w ELSE Probed(running(w, pid).w, pid, n - 1)

\* C18: applied any number of times in a row to the handle in the slot,
\* Inferior::running gives the same answer every time and leaves the phase
\* of the process as it was; the answer is false exactly for a dead process.
C18_ProbeIsIdempotent ==
    pc = "loop" /\ inferior # 0 =>
        \A n \in 0..MaxProbes :
            LET wn == Probed(Now, inferior, n)
                a == running(wn, inferior)
            IN  /\ a.r = running(Now, inferior).r
                /\ a.r.tag \in {"true", "false"}
                /\ a.r.tag = "false" <=> os[inferior].st \in Dead
                /\ Phase(a.w.os[inferior]) = Phase(os[inferior])
                /\ \A p \in Pids \ {inferior} : a.w.os[p] = os[p]
                /\ a.w.out = <<>>

C18_Witness ==
    /\ pc = "loop" /\ inferior # 0 /\ os[inferior].st = "reaped" /\ cached[inferior]
    /\ cmd = "Continue" /\ pre.st = "reaped" /\ ops = <<>> /\ next = StatusNone

Reads == {"getregs", "getregs_esrch", "peek"}

\* C19 as stated: every register read and memory read is issued on a
\* parked process.
C19_ReadsMeetParked == \A i \in DOMAIN ops : ops[i] # "getregs_esrch"

\* C19: every read follows, in the same pass, a probe that found the
\* process alive or a wait that reported its stop, and a Backtrace read with
\* the slot empty or a dead process in it issues no read.  A read meets a
\* process that is not parked only when the process died on its own after
\* that probe or stop: it is a register read, it fails, it is the last call
\* of the pass and the pass ends in an error or a panic.  Memory is read
\* only after a register read that succeeded.
C19_ReadsFollowProbe ==
    /\ \A i \in DOMAIN ops :
           ops[i] \in Reads => \E j \in 1..(i - 1) : ops[j] \in {"try_wait", "waitpid"}
    /\ cmd = "Backtrace" /\ (pre.slot = 0 \/ pre.st \in Dead) =>
           \A i \in DOMAIN ops : ops[i] \notin Reads
    /\ \A i \in DOMAIN ops :
           ops[i] = "getregs_esrch" =>
               i = Len(ops) /\ next \in {Err, Panic} /\ pre.st \notin Dead
    /\ \A i \in DOMAIN ops :
           ops[i] = "peek" => \E j \in 1..(i - 1) : ops[j] = "getregs"

C19_Witness ==
    /\ cmd = "Backtrace" /\ pre.st = "stopped"
    /\ ops = <<"try_wait", "getregs_esrch">> /\ next = Panic

\* C20: a Continue or Run that finds the process of the slot dead leaves the
\* slot empty.
C20_DeadHandleLeavesSlot ==
    DeadHandle /\ cmd \in {"Continue", "Run"} /\ pc = "loop" => inferior = 0

====
